---- MODULE Spec2Model ----
(***************************************************************************)
(* Model of the ViewportTheme class of viewport-uploader (src/index.js):   *)
(* construction from a named target environment or from environment        *)
(* variables, the memoised existence check, and the create / reset /       *)
(* upload operations with their awaits on the network and file helpers.    *)
(***************************************************************************)
EXTENDS Integers, Sequences, FiniteSets, TLC

VARIABLES
    processEnv,      \* process.env restricted to the five VPRT_* variables
    ctorIn,          \* arguments of the last constructor call
    ctorResult,      \* "none" | "ok" | the kind of error the constructor threw
    config,          \* this.envName, confluenceBaseUrl, username, password, scope
    themeName,       \* this.themeName
    themeId,         \* this.themeId
    doesThemeExist,  \* this.#doesThemeExist
    remoteExists,    \* Scroll Viewport: a theme of that name and scope exists
    remoteId,        \* Scroll Viewport: the id of that theme
    op,              \* the method the caller awaits (or awaited last)
    pc,              \* where that method is suspended, "done" once it settled
    args,            \* the options object passed to upload()
    sourcePaths,     \* upload(): local variable sourcePaths
    targetPaths,     \* upload(): local variable targetPaths
    calls,           \* helper calls issued by the current invocation, in order
    log,             \* showLog lines emitted by the current invocation, in order
    result,          \* how the current invocation settled
    prev,            \* the invocation before the current one
    rejected,        \* the network helper whose promise rejected in this invocation
    tally,           \* what happened on the instance since it was constructed
    second           \* an exists() call made from a second call site

ctorVars   == <<processEnv, ctorIn, ctorResult>>
instVars   == <<config, themeName, themeId, doesThemeExist>>
remoteVars == <<remoteExists, remoteId>>
callVars   == <<op, pc, args, sourcePaths, targetPaths, calls, log, result, prev>>
histVars   == <<rejected, tally>>
vars       == <<ctorVars, instVars, remoteVars, callVars, histVars, second>>

----------------------------------------------------------------------------
(* Values *)

Undefined == "undefined"

\* Longest list of files the glob resolver returns.
MaxFiles == 2

\* Most method calls made on the instance.
MaxCalls == 3

ThemeIds == {"id1", "id2"}

Bool(b) == IF b THEN "true" ELSE "false"

\* JS truthiness of a string-or-undefined value.
Truthy(v) == v \notin {Undefined, ""}

----------------------------------------------------------------------------
(* Templates and validation *)

envTemplate ==
    [envName |-> "any", confluenceBaseUrl |-> "url", username |-> "any",
     password |-> "any", scope |-> "any"]

uplTemplate ==
    [targetPath |-> "dir", sourcePath |-> "dir", globString |-> "any"]

envVarNames ==
    [envName |-> "VPRT_ENV", confluenceBaseUrl |-> "VPRT_CONFLUENCEBASEURL",
     username |-> "VPRT_USERNAME", password |-> "VPRT_PASSWORD",
     scope |-> "VPRT_SCOPE"]

\* Strings the model uses for confluenceBaseUrl, and those among them that
\* /^(https?):\/\/[^\s$.?#].[^\s]*[^/]$/i accepts.
UrlStrings == {"https://wiki.example.com", "https://wiki.example.com/", "wiki.example.com"}
UrlAccepted == {"https://wiki.example.com"}

\* Path segments that \w+ matches; a file name such as "a.css" is none.
WordSegments == {"src", "dist", "sub", "lib"}

\* A directory string such as "src/" is its segments and whether it ends in "/".
Dir(segs, slash) == [segs |-> segs, slash |-> slash]

\* /^(\w+\/)*$/i : zero or more word segments, each followed by "/".
DirAccepted(d) ==
    /\ \A i \in DOMAIN d.segs : d.segs[i] \in WordSegments
    /\ d.slash <=> (d.segs # <<>>)

Matches(pattern, value) ==
    CASE pattern = "any" -> TRUE
      [] pattern = "url" -> value \in UrlAccepted
      [] pattern = "dir" -> DirAccepted(value)

\* lib/validate.js: the candidate has exactly the template's keys and every
\* value matches its pattern.
regexVal(template, candidate) ==
    /\ DOMAIN candidate = DOMAIN template
    /\ \A k \in DOMAIN template : Matches(template[k], candidate[k])

----------------------------------------------------------------------------
(* Constructor *)

NoConfig == [none |-> TRUE]

\* ~/.vpconfig.json as the model sees it: one valid environment, one whose
\* base URL ends in a slash.
ConfigStore ==
    [prod |-> [envName |-> "prod", confluenceBaseUrl |-> "https://wiki.example.com",
               username |-> "u", password |-> "p", scope |-> "s"],
     broken |-> [envName |-> "broken", confluenceBaseUrl |-> "https://wiki.example.com/",
                 username |-> "u", password |-> "p", scope |-> "s"]]

\* lib/files.js loadConfigSync: the named entry, or ConfigNotFound.
loadConfigSync(envName) ==
    IF envName \in DOMAIN ConfigStore
    THEN [error |-> "none", env |-> ConfigStore[envName]]
    ELSE [error |-> "ConfigNotFound", env |-> NoConfig]

Thrown(kind) == [error |-> kind, this |-> NoConfig]

Built(targetEnv) ==
    IF ~regexVal(envTemplate, targetEnv)
    THEN Thrown("InvalidConfigSchema")
    ELSE [error |-> "none", this |-> targetEnv]

envVarsAllSet_some(env) ==
    \E k \in DOMAIN envVarNames : Truthy(env[envVarNames[k]])

\* Object.values(envVarNames).every(item => !!process.env[item])
envVarsAllSet(env) ==
    \A k \in DOMAIN envVarNames : Truthy(env[envVarNames[k]])

targetEnvFromProcess(env) ==
    [k \in DOMAIN envTemplate |-> env[envVarNames[k]]]

\* new ViewportTheme(themeName, envName) of src/index.js.
constructor(tName, envName, env) ==
    IF ~Truthy(tName) THEN Thrown("MissingThemeName")
    ELSE IF Truthy(envName)
    THEN LET loaded == loadConfigSync(envName)
         IN  IF loaded.error # "none" THEN Thrown(loaded.error)
             ELSE Built(loaded.env)
    ELSE IF envVarsAllSet(env)
    THEN Built(targetEnvFromProcess(env))
    ELSE Thrown("IncompleteEnvironment")

\* The constructor of the second copy of the class, which has no fallback to
\* environment variables.
constructorNamedOnly(tName, envName, env) ==
    IF ~Truthy(tName) \/ ~Truthy(envName) THEN Thrown("MissingArguments")
    ELSE LET loaded == loadConfigSync(envName)
         IN  IF loaded.error # "none" THEN Thrown(loaded.error)
             ELSE Built(loaded.env)

----------------------------------------------------------------------------
(* Path remapping of upload() *)

\* Number of leading segments two paths share.
RECURSIVE CommonLen(_, _)
CommonLen(f, t) ==
    IF f = <<>> \/ t = <<>> \/ Head(f) # Head(t) THEN 0
    ELSE 1 + CommonLen(Tail(f), Tail(t))

Ups(n) == [i \in 1..n |-> ".."]

\* path.relative(from, to) for two paths relative to the working directory:
\* climb out of what is left of from, then descend what is left of to.
relative(from, to) ==
    LET c == CommonLen(from, to)
    IN  Ups(Len(from) - c) \o SubSeq(to, c + 1, Len(to))

\* path.normalize on segments: ".." removes the segment before it, and stays
\* when there is none to remove.
RECURSIVE Normalize(_, _)
Normalize(segs, acc) ==
    IF segs = <<>> THEN acc
    ELSE IF Head(segs) = ".." /\ acc # <<>> /\ acc[Len(acc)] # ".."
    THEN Normalize(Tail(segs), SubSeq(acc, 1, Len(acc) - 1))
    ELSE Normalize(Tail(segs), Append(acc, Head(segs)))

\* path.join(a, b): concatenate and normalize.
join(a, b) == Normalize(a \o b, <<>>)

targetPathsOf_flat(targetPath, sourcePath, paths) ==
    [i \in 1..Len(paths) |->
        join(targetPath.segs, <<paths[i][Len(paths[i])]>>)]

\* sourcePaths.map(item => path.join(targetPath, path.relative(sourcePath, item)))
targetPathsOf(targetPath, sourcePath, paths) ==
    [i \in 1..Len(paths) |->
        join(targetPath.segs, relative(sourcePath.segs, paths[i]))]

----------------------------------------------------------------------------
(* Inputs of upload() *)

NoArgs == [none |-> TRUE]

TargetDirs == {Dir(<<>>, FALSE), Dir(<<"dist">>, TRUE)}
SourceDirs == {Dir(<<>>, FALSE), Dir(<<"src">>, TRUE), Dir(<<"src", "sub">>, TRUE)}

ValidOptions ==
    {[targetPath |-> t, sourcePath |-> s, globString |-> "src/**/*.css"] :
        t \in TargetDirs, s \in SourceDirs}

InvalidOptions ==
    { [targetPath |-> Dir(<<"dist">>, TRUE), sourcePath |-> Dir(<<"src">>, TRUE)],
      [targetPath |-> Dir(<<"dist">>, FALSE), sourcePath |-> Dir(<<"src">>, TRUE),
       globString |-> "src/**/*.css"],
      [targetPath |-> Dir(<<"dist">>, TRUE), sourcePath |-> Dir(<<"src">>, TRUE),
       globString |-> "src/**/*.css", verbose |-> "yes"] }

UploadOptions == ValidOptions \cup InvalidOptions

\* Files the glob resolver can report, as segment lists.
Paths == {<<"src", "a.css">>, <<"src", "sub", "b.css">>, <<"lib", "a.css">>}

GlobResults == UNION {[1..n -> Paths] : n \in 0..MaxFiles}

----------------------------------------------------------------------------
(* Getters *)

Url(parts) == parts

restUrlForThemeResources_unguarded(tid) ==
    [error |-> "none", url |-> Url(<<"theme", tid, "resource">>)]

\* get restUrlForThemeResources: throws while themeId is not set.
restUrlForThemeResources(tid) ==
    IF ~Truthy(tid)
    THEN [error |-> "ThemeNotInitialized", url |-> Url(<<>>)]
    ELSE [error |-> "none", url |-> Url(<<"theme", tid, "resource">>)]

----------------------------------------------------------------------------
(* How an invocation goes on *)

Settle(r, c, l) ==
    /\ pc' = "done"
    /\ result' = r
    /\ calls' = c
    /\ log' = l

Await(helper, c, l) ==
    /\ pc' = helper
    /\ result' = "pending"
    /\ calls' = Append(c, helper)
    /\ log' = l

\* lib/network.js resetTheme and uploadTheme: read this.restUrlForThemeResources,
\* then send the request.
CallOnResources(helper, c, l) ==
    LET u == restUrlForThemeResources(themeId)
    IN  IF u.error # "none" THEN Settle(u.error, c, l) ELSE Await(helper, c, l)

mustCheckRemote_always(flag) == TRUE

\* exists(): the remote check is made while the flag is undefined.
mustCheckRemote(flag) == flag = Undefined

createSkipsCreation_never(v) == FALSE

\* create(): if (await this.exists()) skips the creation.
createSkipsCreation(v) == v = "true"

\* reset() and upload(): if (!await this.exists()) throw.
requiresExisting(v) == v # "true"

optionsRejected_never(options) == FALSE

\* upload(): if (!regexVal(uplTemplate, options)) throw.
optionsRejected(options) == ~regexVal(uplTemplate, options)

nothingToUpload_never(paths) == FALSE

\* upload(): if (!sourcePaths.length) return.
nothingToUpload(paths) == Len(paths) = 0

\* The line exists() logs before it returns.
ExistsLine(v) == IF v = "true" THEN "exists" ELSE "notExists"

existsLog_onlyWhenChecked(l, v) == IF l = <<>> THEN l ELSE Append(l, ExistsLine(v))

\* exists(): the showLog after the if block, reached with or without a check;
\* l holds the lines of the invocation so far.
existsLog(l, v) == Append(l, ExistsLine(v))

cacheAfterCheck_keepFirst(old, answer) == IF old = Undefined THEN answer ELSE old

\* exists(): this.#doesThemeExist = await existsTheme.apply(this)
cacheAfterCheck(old, answer) == answer

\* Number of lines among l in which exists() reports its result.
ResultLines(l) ==
    Cardinality({i \in DOMAIN l : l[i] \in {"exists", "notExists"}})

Rejects_retry(helper, c, l) ==
    /\ pc' = helper
    /\ result' = "pending"
    /\ calls' = Append(c, helper)
    /\ log' = l

\* No method catches a rejected await: the method rejects with the same error.
Rejects(helper, c, l) ==
    /\ pc' = "done"
    /\ result' = "RemoteError"
    /\ calls' = c
    /\ log' = l

\* What the awaiting method does once exists() has returned v; c and l are the
\* calls and log lines of the invocation so far.
AfterExists(o, a, v, c, l) ==
    CASE o = "exists" -> Settle(v, c, l)
      [] o = "create" ->
            IF createSkipsCreation(v)
            THEN Await("fetchTheme", c, Append(l, "wontCreate"))
            ELSE Await("createTheme", c, Append(l, "creating"))
      [] o = "reset" ->
            IF requiresExisting(v)
            THEN Settle("ThemeNotFound", c, l)
            ELSE CallOnResources("resetTheme", c, Append(l, "resetting"))
      [] o = "upload" ->
            IF requiresExisting(v)
            THEN Settle("ThemeNotFound", c, l)
            ELSE IF optionsRejected(a)
            THEN Settle("InvalidArguments", c, l)
            ELSE Await("resolveGlob", c, l)

\* A method is called: it calls exists(), which either suspends on the remote
\* check or returns the stored flag at once.
Call(o, a) ==
    /\ ctorResult = "ok"
    /\ pc = "done"
    /\ tally.started < MaxCalls
    /\ op' = o
    /\ args' = a
    /\ prev' = [op |-> op, result |-> result, calls |-> calls]
    /\ sourcePaths' = <<>>
    /\ targetPaths' = <<>>
    /\ rejected' = "none"
    /\ second' = [second EXCEPT !.overlaps = FALSE]
    /\ IF mustCheckRemote(doesThemeExist)
       THEN /\ Await("existsTheme", <<>>, <<"checking">>)
            /\ tally' = [tally EXCEPT !.started = @ + 1, !.checks = @ + 1]
       ELSE /\ AfterExists(o, a, doesThemeExist, <<>>, existsLog(<<>>, doesThemeExist))
            /\ tally' = [tally EXCEPT !.started = @ + 1, !.returned = @ + 1,
                                      !.lines = @ + ResultLines(log')]
    /\ UNCHANGED <<ctorVars, instVars, remoteVars>>

----------------------------------------------------------------------------
(* Operations *)

CallExists == Call("exists", NoArgs)

CallCreate == Call("create", NoArgs)

CallReset == Call("reset", NoArgs)

CallUpload == \E a \in UploadOptions : Call("upload", a)

\* existsTheme resolves: exists() stores the answer, logs it and returns it.
ExistsThemeReturns ==
    /\ pc = "existsTheme"
    /\ LET answer == Bool(remoteExists)
           v == cacheAfterCheck(doesThemeExist, answer)
       IN  /\ doesThemeExist' = v
           /\ AfterExists(op, args, v, calls, existsLog(log, v))
           /\ tally' = [tally EXCEPT !.returned = @ + 1, !.writes = @ + 1,
                                     !.lastAnswer = answer,
                                     !.lines = @ + ResultLines(log') - ResultLines(log)]
    /\ UNCHANGED <<ctorVars, config, themeName, themeId, remoteVars,
                   op, args, sourcePaths, targetPaths, prev, rejected, second>>

NetworkHelpers ==
    {"existsTheme", "createTheme", "fetchTheme", "resetTheme", "uploadTheme"}

RemoteFails_marksMissing ==
    /\ pc \in NetworkHelpers
    /\ rejected' = pc
    /\ Rejects(pc, calls, log)
    /\ doesThemeExist' = IF pc = "existsTheme" THEN "false" ELSE doesThemeExist
    /\ UNCHANGED <<ctorVars, config, themeName, themeId, remoteVars,
                   op, args, sourcePaths, targetPaths, prev, tally, second>>

\* Any awaited network call rejects: the method rejects with that error.
RemoteFails ==
    /\ pc \in NetworkHelpers
    /\ rejected' = pc
    /\ Rejects(pc, calls, log)
    /\ UNCHANGED <<ctorVars, instVars, remoteVars,
                   op, args, sourcePaths, targetPaths, prev, tally, second>>

\* resolveGlob or createFormData rejects.
FileHelperFails ==
    /\ pc \in {"resolveGlob", "createFormData"}
    /\ Settle(IF pc = "resolveGlob" THEN "GlobError" ELSE "FormDataError", calls, log)
    /\ UNCHANGED <<ctorVars, instVars, remoteVars,
                   op, args, sourcePaths, targetPaths, prev, histVars, second>>

\* createTheme resolves: create() goes on to fetch the theme.
CreateThemeReturns ==
    /\ pc = "createTheme"
    /\ remoteExists' = TRUE
    /\ IF remoteExists THEN remoteId' = remoteId ELSE remoteId' \in ThemeIds
    /\ Await("fetchTheme", calls, Append(log, "created"))
    /\ UNCHANGED <<ctorVars, instVars, op, args, sourcePaths, targetPaths, prev,
                   histVars, second>>

themeIdOf_kept(theme, old) == old

\* this.themeId = theme.id
themeIdOf(theme, old) == theme.id

\* fetchTheme resolves with the theme object: create() stores its id.
FetchThemeReturns ==
    /\ pc = "fetchTheme"
    /\ remoteExists
    /\ themeId' = themeIdOf([id |-> remoteId, name |-> themeName], themeId)
    /\ Settle("ok", calls, log)
    /\ UNCHANGED <<ctorVars, config, themeName, doesThemeExist, remoteVars,
                   op, args, sourcePaths, targetPaths, prev, histVars, second>>

ResetThemeReturns_clearsId ==
    /\ pc = "resetTheme"
    /\ Settle("ok", calls, Append(log, "resetDone"))
    /\ themeId' = Undefined
    /\ UNCHANGED <<ctorVars, config, themeName, doesThemeExist, remoteVars,
                   op, args, sourcePaths, targetPaths, prev, histVars, second>>

ResetThemeReturns_forgetsCache ==
    /\ pc = "resetTheme"
    /\ Settle("ok", calls, Append(log, "resetDone"))
    /\ doesThemeExist' = Undefined
    /\ UNCHANGED <<ctorVars, config, themeName, themeId, remoteVars,
                   op, args, sourcePaths, targetPaths, prev, histVars, second>>

\* resetTheme resolves.
ResetThemeReturns ==
    /\ pc = "resetTheme"
    /\ Settle("ok", calls, Append(log, "resetDone"))
    /\ UNCHANGED <<ctorVars, instVars, remoteVars,
                   op, args, sourcePaths, targetPaths, prev, histVars, second>>

\* resolveGlob resolves with the matching files: upload() returns when there
\* are none, else maps them to target paths and builds the form data.
ResolveGlobReturns ==
    /\ pc = "resolveGlob"
    /\ \E found \in GlobResults :
        /\ sourcePaths' = found
        /\ IF nothingToUpload(found)
           THEN /\ targetPaths' = <<>>
                /\ Settle("ok", calls, Append(log, "wontUpload"))
           ELSE /\ targetPaths' = targetPathsOf(args.targetPath, args.sourcePath, found)
                /\ Await("createFormData", calls, Append(log, "uploading"))
    /\ UNCHANGED <<ctorVars, instVars, remoteVars, op, args, prev, histVars, second>>

\* createFormData resolves: upload() calls uploadTheme.
CreateFormDataReturns ==
    /\ pc = "createFormData"
    /\ CallOnResources("uploadTheme", calls, log)
    /\ UNCHANGED <<ctorVars, instVars, remoteVars,
                   op, args, sourcePaths, targetPaths, prev, histVars, second>>

\* uploadTheme resolves with the uploaded paths.
UploadThemeReturns ==
    /\ pc = "uploadTheme"
    /\ Settle("ok", calls, Append(log, "uploaded"))
    /\ UNCHANGED <<ctorVars, instVars, remoteVars,
                   op, args, sourcePaths, targetPaths, prev, histVars, second>>

----------------------------------------------------------------------------
(* Specification of one constructed instance *)

NoCall == [op |-> "none", result |-> "none", calls |-> <<>>]

\* Counts since construction: method calls started, exists() calls that
\* returned, result lines logged, remote existence checks sent, writes of
\* #doesThemeExist, and the answer of the check that resolved last.
NoTally ==
    [started |-> 0, returned |-> 0, lines |-> 0, checks |-> 0, writes |-> 0,
     lastAnswer |-> "none"]

\* The second call site has not called exists().
NoSecond == [pc |-> "idle", result |-> "none", issued |-> FALSE, overlaps |-> FALSE]

NoEnv == [n \in {envVarNames[k] : k \in DOMAIN envVarNames} |-> Undefined]

Init ==
    /\ processEnv = NoEnv
    /\ ctorIn = [themeName |-> "theme", envName |-> "prod", class |-> "index"]
    /\ ctorResult = "ok"
    /\ config = constructor("theme", "prod", NoEnv).this
    /\ themeName = "theme"
    /\ themeId = Undefined
    /\ doesThemeExist = Undefined
    /\ remoteExists \in BOOLEAN
    /\ remoteId = IF remoteExists THEN "id1" ELSE Undefined
    /\ op = "none"
    /\ pc = "done"
    /\ args = NoArgs
    /\ sourcePaths = <<>>
    /\ targetPaths = <<>>
    /\ calls = <<>>
    /\ log = <<>>
    /\ result = "none"
    /\ prev = NoCall
    /\ rejected = "none"
    /\ tally = NoTally
    /\ second = NoSecond

Next ==
    \/ CallExists
    \/ CallCreate
    \/ CallReset
    \/ CallUpload
    \/ ExistsThemeReturns
    \/ RemoteFails
    \/ FileHelperFails
    \/ CreateThemeReturns
    \/ FetchThemeReturns
    \/ ResetThemeReturns
    \/ ResolveGlobReturns
    \/ CreateFormDataReturns
    \/ UploadThemeReturns

Spec == Init /\ [][Next]_vars

----------------------------------------------------------------------------
(* Specification with a second call site that calls exists() at any time *)

\* exists() is called from a second call site, without waiting for the method
\* the first one awaits.
SecondExistsCalled ==
    /\ ctorResult = "ok"
    /\ second.pc \in {"idle", "done"}
    /\ tally.started < MaxCalls
    /\ IF mustCheckRemote(doesThemeExist)
       THEN /\ second' = [pc |-> "existsTheme", result |-> "pending", issued |-> TRUE,
                          overlaps |-> (op = "exists" /\ pc = "existsTheme")]
            /\ tally' = [tally EXCEPT !.started = @ + 1, !.checks = @ + 1]
       ELSE /\ second' = [pc |-> "done", result |-> doesThemeExist, issued |-> FALSE,
                          overlaps |-> FALSE]
            /\ tally' = [tally EXCEPT !.started = @ + 1, !.returned = @ + 1,
                            !.lines = @ + ResultLines(existsLog(<<>>, doesThemeExist))]
    /\ UNCHANGED <<ctorVars, instVars, remoteVars, callVars, rejected>>

\* The second call site's existsTheme resolves.
SecondExistsThemeReturns ==
    /\ second.pc = "existsTheme"
    /\ LET answer == Bool(remoteExists)
           v == cacheAfterCheck(doesThemeExist, answer)
       IN  /\ doesThemeExist' = v
           /\ second' = [second EXCEPT !.pc = "done", !.result = v]
           /\ tally' = [tally EXCEPT !.returned = @ + 1, !.writes = @ + 1,
                           !.lastAnswer = answer,
                           !.lines = @ + ResultLines(existsLog(<<"checking">>, v))]
    /\ UNCHANGED <<ctorVars, config, themeName, themeId, remoteVars, callVars, rejected>>

\* The second call site's existsTheme rejects.
SecondExistsThemeFails ==
    /\ second.pc = "existsTheme"
    /\ second' = [second EXCEPT !.pc = "done", !.result = "RemoteError"]
    /\ UNCHANGED <<ctorVars, instVars, remoteVars, callVars, histVars>>

\* Another client creates the theme in Scroll Viewport.
ThemeAppearsRemotely ==
    /\ ctorResult = "ok"
    /\ ~remoteExists
    /\ remoteExists' = TRUE
    /\ remoteId' \in ThemeIds
    /\ UNCHANGED <<ctorVars, instVars, callVars, histVars, second>>

NextRace ==
    \/ Next
    \/ SecondExistsCalled
    \/ SecondExistsThemeReturns
    \/ SecondExistsThemeFails
    \/ ThemeAppearsRemotely

SpecRace == Init /\ [][NextRace]_vars

----------------------------------------------------------------------------
(* Specification of the constructor *)

EnvValues(name) ==
    IF name = "VPRT_CONFLUENCEBASEURL"
    THEN {Undefined, ""} \cup UrlStrings
    ELSE {Undefined, "", "x"}

Envs ==
    {e \in [DOMAIN NoEnv -> {Undefined, "", "x"} \cup UrlStrings] :
        \A n \in DOMAIN NoEnv : e[n] \in EnvValues(n)}

ThemeNameArgs == {Undefined, "theme"}
EnvNameArgs == {Undefined, "", "prod", "broken", "other"}

InitCtor ==
    /\ processEnv \in Envs
    /\ ctorIn = NoArgs
    /\ ctorResult = "none"
    /\ config = NoConfig
    /\ themeName = Undefined
    /\ themeId = Undefined
    /\ doesThemeExist = Undefined
    /\ remoteExists = FALSE
    /\ remoteId = Undefined
    /\ op = "none"
    /\ pc = "done"
    /\ args = NoArgs
    /\ sourcePaths = <<>>
    /\ targetPaths = <<>>
    /\ calls = <<>>
    /\ log = <<>>
    /\ result = "none"
    /\ prev = NoCall
    /\ rejected = "none"
    /\ tally = NoTally
    /\ second = NoSecond

\* The outcome r of a constructor call: the instance's fields on success, no
\* instance when it threw.
Constructed(tName, envName, class, r) ==
    /\ ctorResult = "none"
    /\ ctorIn' = [themeName |-> tName, envName |-> envName, class |-> class]
    /\ ctorResult' = IF r.error = "none" THEN "ok" ELSE r.error
    /\ config' = r.this
    /\ themeName' = IF r.error = "none" THEN tName ELSE Undefined
    /\ themeId' = Undefined
    /\ doesThemeExist' = Undefined
    /\ UNCHANGED <<processEnv, remoteVars, callVars, histVars, second>>

Construct ==
    \E tName \in ThemeNameArgs, envName \in EnvNameArgs :
        Constructed(tName, envName, "index", constructor(tName, envName, processEnv))

ConstructNamedOnly ==
    \E tName \in ThemeNameArgs, envName \in EnvNameArgs :
        Constructed(tName, envName, "part_000",
                    constructorNamedOnly(tName, envName, processEnv))

NextCtor == Construct \/ ConstructNamedOnly

SpecCtor == InitCtor /\ [][NextCtor]_vars

----------------------------------------------------------------------------
(* Properties *)

Range(s) == {s[i] : i \in DOMAIN s}

Count(seq, x) == Cardinality({i \in DOMAIN seq : seq[i] = x})

Issued(helper) == helper \in Range(calls)

IsPrefix(p, q) == Len(p) <= Len(q) /\ SubSeq(q, 1, Len(p)) = p

Returned(r) == r \in {"true", "false"}

\* C1: when an exists() call follows an exists() call that returned, the second
\* call has settled without any helper call, returns what the first returned,
\* and the two calls together made at most one remote existence check.
C1_SecondExistsUsesCache ==
    (op = "exists" /\ prev.op = "exists" /\ Returned(prev.result)) =>
        /\ pc = "done"
        /\ calls = <<>>
        /\ result = prev.result
        /\ Count(prev.calls, "existsTheme") + Count(calls, "existsTheme") <= 1

C1_Witness ==
    /\ op = "exists" /\ pc = "done" /\ result = "true"
    /\ prev.op = "exists" /\ prev.result = "true"
    /\ prev.calls = <<"existsTheme">>

\* C2: a create() that found the theme missing and completed has called
\* createTheme once, then fetchTheme once, in that order, and themeId is the id
\* of the theme fetchTheme returned; until fetchTheme has returned, at most the
\* creation has been called.
C2_CreateThenFetchThenBind ==
    (op = "create" /\ doesThemeExist = "false") =>
        /\ (pc = "done" /\ result = "ok") =>
              /\ SelectSeq(calls, LAMBDA h : h # "existsTheme")
                    = <<"createTheme", "fetchTheme">>
              /\ themeId = remoteId
              /\ themeId \in ThemeIds
        /\ pc = "createTheme" =>
              SelectSeq(calls, LAMBDA h : h # "existsTheme") = <<"createTheme">>
        /\ pc = "fetchTheme" =>
              SelectSeq(calls, LAMBDA h : h # "existsTheme")
                 = <<"createTheme", "fetchTheme">>

C2_Witness ==
    /\ op = "create" /\ pc = "done" /\ result = "ok"
    /\ doesThemeExist = "false"
    /\ calls = <<"existsTheme", "createTheme", "fetchTheme">>
    /\ themeId = "id2"

\* C3: a create() that found the theme existing never calls createTheme, fails
\* only if fetchTheme fails, and once it has settled it has called fetchTheme;
\* when it completed, themeId is the id of the fetched theme.
C3_CreateOnExistingTheme ==
    (op = "create" /\ doesThemeExist = "true") =>
        /\ ~Issued("createTheme")
        /\ Count(calls, "fetchTheme") = 1
        /\ pc = "done" => result \in {"ok", "RemoteError"}
        /\ (pc = "done" /\ result = "ok") =>
              themeId = remoteId /\ themeId \in ThemeIds

C3_Witness ==
    /\ op = "create" /\ pc = "done" /\ result = "ok"
    /\ doesThemeExist = "true"
    /\ calls = <<"existsTheme", "fetchTheme">>
    /\ themeId = "id1"

\* C4: a reset() or upload() that follows a completed create() does not fail
\* with ThemeNotFound.
C4_UsableAfterCreate ==
    (prev.op = "create" /\ prev.result = "ok" /\ op \in {"reset", "upload"}
        /\ pc = "done") =>
        result # "ThemeNotFound"

\* C5: a reset() on an instance whose themeId was never set never calls
\* resetTheme and fails with ThemeNotInitialized when the theme exists; a
\* reset() that finds the theme missing fails with ThemeNotFound, whatever
\* themeId is, and does not call resetTheme either.
C5_ResetBeforeCreate ==
    op = "reset" =>
        /\ themeId = Undefined => ~Issued("resetTheme")
        /\ (themeId = Undefined /\ pc = "done" /\ doesThemeExist = "true") =>
              result = "ThemeNotInitialized"
        /\ doesThemeExist = "false" =>
              pc = "done" /\ result = "ThemeNotFound" /\ ~Issued("resetTheme")

C5_Witness ==
    /\ op = "reset" /\ pc = "done" /\ themeId = Undefined
    /\ doesThemeExist = "true" /\ result = "ThemeNotInitialized"
    /\ prev.op = "none"

C5_WitnessNotFound ==
    /\ op = "reset" /\ pc = "done" /\ themeId = Undefined
    /\ doesThemeExist = "false" /\ result = "ThemeNotFound"

GlobReturned ==
    /\ op = "upload"
    /\ Issued("resolveGlob")
    /\ pc # "resolveGlob"
    /\ result # "GlobError"

\* C6 as stated: with valid options, the theme existing and themeId undefined,
\* upload() fails with ThemeNotInitialized whatever the glob resolver returned.
C6_Original ==
    (GlobReturned /\ pc = "done" /\ result # "FormDataError"
        /\ args \in ValidOptions /\ doesThemeExist = "true" /\ themeId = Undefined) =>
        result = "ThemeNotInitialized"

\* C6 as amended: with valid options, the theme existing, themeId undefined
\* and the form data built, upload() fails with ThemeNotInitialized without
\* calling uploadTheme when the glob resolver returned files, and completes
\* when it returned none.
C6_UploadNeedsThemeId ==
    (GlobReturned /\ args \in ValidOptions /\ doesThemeExist = "true"
        /\ themeId = Undefined) =>
        /\ ~Issued("uploadTheme")
        /\ (pc = "done" /\ sourcePaths # <<>> /\ result # "FormDataError") =>
              result = "ThemeNotInitialized"
        /\ sourcePaths = <<>> => (pc = "done" /\ result = "ok")

C6_Witness ==
    /\ GlobReturned /\ pc = "done" /\ args \in ValidOptions
    /\ doesThemeExist = "true" /\ themeId = Undefined
    /\ Len(sourcePaths) = 2
    /\ result = "ThemeNotInitialized"

\* C7: once the glob resolver has returned no file, upload() has completed,
\* without a call of createFormData or uploadTheme.
C7_EmptyGlobIsNoOp ==
    (GlobReturned /\ sourcePaths = <<>>) =>
        /\ pc = "done"
        /\ result = "ok"
        /\ ~Issued("createFormData")
        /\ ~Issued("uploadTheme")

C7_Witness ==
    /\ GlobReturned /\ sourcePaths = <<>> /\ pc = "done" /\ result = "ok"
    /\ themeId \in ThemeIds

LacksGlobString == op = "upload" /\ "globString" \notin DOMAIN args

\* C8 as stated: upload() without globString fails with InvalidArguments and
\* does not call the glob resolver, in every state where the existence check
\* was answered.
C8_Original ==
    (LacksGlobString /\ pc = "done" /\ result # "RemoteError") =>
        /\ result = "InvalidArguments"
        /\ ~Issued("resolveGlob")

\* C8 as amended: upload() without globString never calls the glob resolver;
\* it fails with InvalidArguments when the theme exists and with ThemeNotFound
\* when it does not.
C8_MissingGlobString ==
    LacksGlobString =>
        /\ ~Issued("resolveGlob")
        /\ (pc = "done" /\ doesThemeExist = "true") => result = "InvalidArguments"
        /\ (pc = "done" /\ doesThemeExist = "false") => result = "ThemeNotFound"
        /\ (pc = "done" /\ doesThemeExist = Undefined) => result = "RemoteError"

C8_Witness ==
    /\ LacksGlobString /\ pc = "done" /\ doesThemeExist = "true"
    /\ result = "InvalidArguments"
    /\ themeId \in ThemeIds

ExampleOptions ==
    [targetPath |-> Dir(<<"dist">>, TRUE), sourcePath |-> Dir(<<"src">>, TRUE),
     globString |-> "src/**/*.css"]

ExampleSources == << <<"src", "a.css">>, <<"src", "sub", "b.css">> >>

\* C9: once upload() has mapped a non-empty glob result, targetPaths has the
\* length of sourcePaths and element i is targetPath joined with source path i
\* relative to sourcePath: for a source under sourcePath, targetPath followed
\* by the rest of the source path; the lists are index-aligned, duplicates
\* included.
C9_PathRemapping ==
    (GlobReturned /\ sourcePaths # <<>>) =>
        /\ Len(targetPaths) = Len(sourcePaths)
        /\ \A i \in 1..Len(sourcePaths) :
              /\ targetPaths[i] =
                    join(args.targetPath.segs,
                         relative(args.sourcePath.segs, sourcePaths[i]))
              /\ IsPrefix(args.sourcePath.segs, sourcePaths[i]) =>
                    targetPaths[i] =
                       args.targetPath.segs
                          \o SubSeq(sourcePaths[i], Len(args.sourcePath.segs) + 1,
                                    Len(sourcePaths[i]))
        /\ (args = ExampleOptions /\ sourcePaths = ExampleSources) =>
              targetPaths = << <<"dist", "a.css">>, <<"dist", "sub", "b.css">> >>

C9_Witness ==
    /\ GlobReturned /\ pc = "done" /\ result = "ok"
    /\ args = ExampleOptions /\ sourcePaths = ExampleSources
    /\ targetPaths = << <<"dist", "a.css">>, <<"dist", "sub", "b.css">> >>

C9_WitnessDuplicate ==
    /\ GlobReturned /\ Len(sourcePaths) = 2 /\ sourcePaths[1] = sourcePaths[2]
    /\ targetPaths[1] = targetPaths[2]

SetVars == {n \in DOMAIN processEnv : Truthy(processEnv[n])}

\* C10: a constructor call without envName succeeds only if all five VPRT_*
\* variables are set and non-empty, and then the instance holds exactly their
\* values; when some but not all are set the call throws and there is no
\* instance, and the constructor of src/index.js given a theme name throws
\* for the incomplete environment.
C10_EnvAllOrNothing ==
    (ctorResult # "none" /\ ~Truthy(ctorIn.envName)) =>
        /\ ctorResult = "ok" =>
              /\ SetVars = DOMAIN processEnv
              /\ config = [k \in DOMAIN envTemplate |-> processEnv[envVarNames[k]]]
        /\ (SetVars # {} /\ SetVars # DOMAIN processEnv) =>
              /\ ctorResult # "ok"
              /\ config = NoConfig
              /\ themeName = Undefined
              /\ (ctorIn.class = "index" /\ Truthy(ctorIn.themeName)) =>
                    ctorResult = "IncompleteEnvironment"

C10_Witness ==
    /\ ctorResult = "IncompleteEnvironment"
    /\ ~Truthy(ctorIn.envName)
    /\ Cardinality(SetVars) = 4
    /\ config = NoConfig

C10_WitnessComplete ==
    /\ ctorResult = "ok"
    /\ ~Truthy(ctorIn.envName)
    /\ SetVars = DOMAIN processEnv

\* C11: reading the resource URL with themeId undefined fails with
\* ThemeNotInitialized, and an invocation that has sent a reset or upload
\* request runs on an instance whose themeId is set.
C11_NoResourceCallWithoutThemeId ==
    /\ themeId = Undefined =>
          restUrlForThemeResources(themeId).error = "ThemeNotInitialized"
    /\ (Issued("resetTheme") \/ Issued("uploadTheme")) => Truthy(themeId)
    /\ pc \in {"resetTheme", "uploadTheme"} => Truthy(themeId)

C11_Witness ==
    /\ op = "upload" /\ pc = "done" /\ result = "ThemeNotInitialized"
    /\ themeId = Undefined
    /\ calls = <<"existsTheme", "resolveGlob", "createFormData">>

\* C12: #doesThemeExist has been written once when it is known and never when
\* it is unknown; once known it keeps its value and no further remote
\* existence check is sent.
C12_CacheWrittenOnce ==
    /\ [](tally.writes = IF doesThemeExist = Undefined THEN 0 ELSE 1)
    /\ [][doesThemeExist # Undefined =>
             /\ doesThemeExist' = doesThemeExist
             /\ tally'.checks = tally.checks]_vars

C12_Witness ==
    /\ doesThemeExist = "false" /\ remoteExists
    /\ tally.started = 3 /\ tally.returned = 3
    /\ tally.checks = 1 /\ tally.writes = 1

\* C13: a create() that follows a create() which created the theme does not
\* call createTheme again.
C13_SecondCreateSkipsCreation ==
    (prev.op = "create" /\ prev.result = "ok" /\ "createTheme" \in Range(prev.calls)
        /\ op = "create") =>
        ~Issued("createTheme")

\* C14: themeId changes only when create() stores the fetched id,
\* #doesThemeExist only when exists() stores the answer of its check, and
\* themeName and the environment fields never change.
C14_FrameOfThemeState ==
    [][/\ themeId' # themeId => (op = "create" /\ pc = "fetchTheme")
       /\ doesThemeExist' # doesThemeExist => pc = "existsTheme"
       /\ themeName' = themeName
       /\ config' = config]_vars

C14_Witness ==
    /\ op = "upload" /\ pc = "done" /\ result = "ok" /\ Issued("uploadTheme")
    /\ prev.op = "reset" /\ prev.result = "ok"
    /\ themeId \in ThemeIds /\ doesThemeExist = "true"

\* C15: an exists() call started while the first exists() call of the
\* instance awaits its remote check sends a remote check of its own; when
\* both have returned, #doesThemeExist has been written twice and holds the
\* answer that arrived last.
C15_OverlappingExists ==
    second.overlaps =>
        /\ op = "exists"
        /\ Issued("existsTheme")
        /\ second.issued
        /\ (Returned(result) /\ Returned(second.result)) =>
              /\ tally.writes = 2
              /\ doesThemeExist = tally.lastAnswer

C15_Witness ==
    /\ second.overlaps
    /\ result = "false" /\ second.result = "true"
    /\ doesThemeExist = "true"
    /\ tally.checks = 2 /\ tally.writes = 2

\* C16: once a network helper has rejected, the invocation has settled with
\* that error, the rejected call is the last call it made and was made once,
\* and a rejected upload has reported no uploaded resource.
C16_RemoteFailurePropagates ==
    rejected # "none" =>
        /\ pc = "done"
        /\ result = "RemoteError"
        /\ calls[Len(calls)] = rejected
        /\ Count(calls, rejected) = 1
        /\ rejected = "uploadTheme" => "uploaded" \notin Range(log)

C16_Witness ==
    /\ rejected = "uploadTheme" /\ op = "upload" /\ pc = "done"
    /\ result = "RemoteError" /\ Len(sourcePaths) = 2
    /\ calls = <<"resolveGlob", "createFormData", "uploadTheme">>

\* C17: the step on which a network helper rejects changes neither themeId nor
\* #doesThemeExist; after a rejected existence check the flag is undefined and
\* the next method call sends a new existence check.
C17_FailureLeavesThemeState ==
    /\ [](rejected = "existsTheme" => doesThemeExist = Undefined)
    /\ []((prev.result = "RemoteError" /\ prev.calls = <<"existsTheme">>
             /\ op # "none") =>
            (calls # <<>> /\ calls[1] = "existsTheme"))
    /\ [][(rejected = "none" /\ rejected' # "none") =>
             (themeId' = themeId /\ doesThemeExist' = doesThemeExist)]_vars

C17_Witness ==
    /\ prev.op = "exists" /\ prev.result = "RemoteError"
    /\ prev.calls = <<"existsTheme">>
    /\ op = "exists" /\ pc = "done" /\ result = "true"
    /\ calls = <<"existsTheme">>

C17_WitnessCreate ==
    /\ op = "create" /\ rejected = "fetchTheme" /\ themeId \in ThemeIds
    /\ prev.op = "create" /\ prev.result = "ok"

\* C18: once themeId is set, no step unsets it.
C18_BoundStaysBound ==
    [][themeId # Undefined => themeId' # Undefined]_vars

C18_Witness ==
    /\ themeId \in ThemeIds
    /\ prev.op = "reset" /\ prev.result = "RemoteError"
    /\ op = "upload" /\ pc = "done" /\ result = "GlobError"

\* C19: when themeId is set, #doesThemeExist is true or false.
C19_BoundImpliesChecked ==
    themeId # Undefined => doesThemeExist \in {"true", "false"}

C19_Witness ==
    /\ themeId \in ThemeIds /\ doesThemeExist = "false"
    /\ op = "create" /\ pc = "done" /\ result = "ok"

\* C20: as many result lines have been logged as exists() calls have returned;
\* an invocation whose exists() call returned has logged exactly one result
\* line, the one for the stored flag; and no remote existence check is sent
\* once the flag is known.
C20_EveryExistsLogsItsResult ==
    /\ [](tally.lines = tally.returned)
    /\ []((op # "none" /\ pc # "existsTheme" /\ rejected # "existsTheme") =>
            /\ ResultLines(log) = 1
            /\ ExistsLine(doesThemeExist) \in Range(log))
    /\ [][doesThemeExist # Undefined => tally'.checks = tally.checks]_vars

C20_Witness ==
    /\ op = "exists" /\ pc = "done" /\ calls = <<>> /\ log = <<"exists">>
    /\ tally.returned = 3 /\ tally.lines = 3 /\ tally.checks = 1

====
